---- MODULE Spec2Model ----
(***************************************************************************)
(* Model of the Brazilian CDS data feeder: the two store adapters          *)
(* (CSVDataSource, CDSRepository), the acquisition pipeline                *)
(* (update_cds_investing.py, scripts/update_cds_data.py, api/routes/cron), *)
(* the API key repository and the authentication of the CDS routes         *)
(* (APIKeyRepository, api/auth.py, api/routes/cds.py).                     *)
(***************************************************************************)
EXTENDS Integers, Sequences, FiniteSets, TLC

(* ------------------------------ bounds --------------------------------- *)
\* Calendar dates are 1..MaxDate, a batch holds at most MaxBatch records.
MaxDate == 2
MaxBatch == 2
\* upsert_record and bulk_insert start only on a frame of fewer than MaxRows rows.
MaxRows == 3
\* The fetched page covers the days 1..MaxDay; before a run the store holds the
\* days 1..k for some k <= MaxPrior.
MaxDay == 3
\* The tables given to _normalize_investing_table alone have up to MaxTable rows.
MaxTable == 3
MaxPrior == 1
\* api_keys holds at most MaxKeys rows over its life, made from MaxKeys key
\* texts; the clock runs over 1..MaxTime; validate_key is called at most MaxCalls
\* times.
MaxKeys == 2
MaxTime == 2
MaxCalls == 2

\* Python's None (pandas NaN in a float column).
Null == 0

Dates == 1..MaxDate

\* The quotes a fetched row may carry: one without an open price, one with
\* another close and an open price.
OldQuote == [open |-> Null, close |-> 1]
NewQuote == [open |-> 1, close |-> 2]
Quotes == {OldQuote, NewQuote}

VARIABLES
    adapter,     \* "csv" (CSVDataSource) or "db" (CDSRepository): the adapter under test
    df,          \* CSVDataSource._df: the in-memory rows, in frame order
    file,        \* the rows of the CSV file at csv_path, in file order
    fileExists,  \* os.path.exists(csv_path)
    table,       \* the rows of table cds_records
    last,        \* the store call that has just returned (or raised), with its pre-state
    cfg,         \* settings: database_url configured, environment
    run,         \* the pipeline run: its position, inputs, locals and outcome
    runLog,      \* the rows of table data_update_logs
    backups,     \* the contents of the backup copies of the CSV file
    two,         \* two concurrent runs on one store: each one's position and locals
    net,         \* fetch_html: the responses to its attempts, the retries left, its position
    apiKeys,     \* the rows of table api_keys
    nextId,      \* the next value of the autoincrement column api_keys.id
    now,         \* datetime.utcnow()
    sess,        \* per session: the APIKey object validate_key has loaded and changed
    akLog,       \* the repository call that has just ended; the revoked ids; the validations
    req          \* the HTTP request being answered: its position, inputs and response

vars == <<adapter, df, file, fileExists, table, last, cfg, run, runLog, backups, two, net,
          apiKeys, nextId, now, sess, akLog, req>>

keyVars == <<apiKeys, nextId, now, sess, akLog, req>>

runVars == <<cfg, run, runLog, backups, two, net, apiKeys, nextId, now, sess, akLog, req>>

(* ------------------------------ records -------------------------------- *)
\* A record_data dictionary. dstr: the "date" value is a str, not a datetime.date.
Rec(d, s, o, c) ==
    [date |-> d, dstr |-> s, open |-> o, high |-> Null, low |-> Null,
     close |-> c, change_pct |-> Null]

\* Records as the pipeline builds them: the date is a datetime.date.
DateRecs == {Rec(d, FALSE, q.open, q.close) : d \in Dates, q \in Quotes}

\* Records whose date is given either as a datetime.date or as an ISO string.
\* A record_data dict without the key "open".
Missing == -1

\* Records a caller may also pass: the close is None, or the key "open" is absent.
NullCloseRecs == {Rec(d, FALSE, Null, Null) : d \in Dates}
MissingKeyRecs == {Rec(d, FALSE, Missing, NewQuote.close) : d \in Dates}

StrRecs == {Rec(d, s, q.open, q.close) : d \in Dates, s \in BOOLEAN, q \in Quotes}

RECURSIVE SeqsUpTo(_, _)
SeqsUpTo(S, n) ==
    IF n = 0 THEN {<<>>}
    ELSE LET shorter == SeqsUpTo(S, n - 1)
         IN  shorter \cup {Append(b, r) : b \in {x \in shorter : Len(x) = n - 1}, r \in S}

Range(s) == {s[i] : i \in DOMAIN s}

(* --------------------------- CSVDataSource ----------------------------- *)
\* pd.to_datetime(...).dt.date on the date cell: the cell becomes a datetime.date.
ToDate(r) == [r EXCEPT !.dstr = FALSE]

\* DataFrame.to_csv: every date cell, a datetime.date or a str, is written as text.
ToText(r) == [r EXCEPT !.dstr = TRUE]

\* An object column holding both str and datetime.date cells: ordering it raises TypeError.
Mixed(rows) == \E i, j \in DOMAIN rows : rows[i].dstr # rows[j].dstr

\* One step of the descending sort: r goes after the rows that are not smaller.
InsertDesc(sorted, r) ==
    LET k == Cardinality({i \in DOMAIN sorted : sorted[i].date >= r.date})
    IN  SubSeq(sorted, 1, k) \o <<r>> \o SubSeq(sorted, k + 1, Len(sorted))

\* sort_values("date", ascending=False): equal keys keep their order.
RECURSIVE SortDesc(_)
SortDesc(rows) ==
    IF rows = <<>> THEN <<>>
    ELSE InsertDesc(SortDesc(SubSeq(rows, 1, Len(rows) - 1)), rows[Len(rows)])

\* _load_csv: read_csv, dates parsed, sorted descending; no file gives an empty frame.
LoadCsv(f, ex) ==
    IF ex THEN SortDesc([i \in DOMAIN f |-> ToDate(f[i])]) ELSE <<>>

\* Mutant of SaveCsv: the rows of the file whose dates the frame lacks are kept.
SaveCsvMerge(d, f, ex) ==
    IF d = <<>> THEN [file |-> f, exists |-> ex, raised |-> "none"]
    ELSE IF Mixed(d) THEN [file |-> f, exists |-> ex, raised |-> "TypeError"]
    ELSE LET Kept(r) == \A i \in DOMAIN d : d[i].date # r.date
             s == SortDesc(d \o SelectSeq(f, Kept))
         IN  [file |-> [i \in DOMAIN s |-> ToText(s[i])], exists |-> TRUE, raised |-> "none"]

\* _save_csv: nothing is written for an empty frame; otherwise the sorted frame
\* replaces the file. Result: the file, its existence and the exception raised.
SaveCsv(d, f, ex) ==
    IF d = <<>> THEN [file |-> f, exists |-> ex, raised |-> "none"]
    ELSE IF Mixed(d) THEN [file |-> f, exists |-> ex, raised |-> "TypeError"]
    ELSE LET s == SortDesc(d)
         IN  [file |-> [i \in DOMAIN s |-> ToText(s[i])], exists |-> TRUE, raised |-> "none"]

\* The positions of the rows whose date cell equals the datetime.date d
\* (a str cell never equals a datetime.date).
Matching(d, day) == {i \in DOMAIN d : d[i].date = day /\ ~d[i].dstr}

Min(S) == CHOOSE x \in S : \A y \in S : x <= y

\* get_by_date: <<the first matching row>>, or <<>> for None.
CsvGetByDate(d, day) ==
    IF Matching(d, day) = {} THEN <<>> ELSE <<d[Min(Matching(d, day))]>>

\* get_latest(limit): self._df.head(limit), the frame taken as sorted.
CsvGetLatest(d, n) == SubSeq(d, 1, IF n < Len(d) THEN n ELSE Len(d))

\* Mutant of UpsertFrame: the frame is replaced by the incoming record.
UpsertFrameDropsOthers(d, rec) == [df |-> <<ToDate(rec)>>, raised |-> "none"]

\* Mutant of UpsertFrame: the existence check is lost, every record is appended.
UpsertFrameAlwaysInsert(d, rec) ==
    IF d # <<>>
    THEN LET cat == Append(d, ToDate(rec))
         IN  IF Mixed(cat) THEN [df |-> cat, raised |-> "TypeError"]
             ELSE [df |-> SortDesc(cat), raised |-> "none"]
    ELSE [df |-> <<ToDate(rec)>>, raised |-> "none"]

\* The frame after lines 169-188 of upsert_record, and the exception of line 182.
UpsertFrame(d, rec) ==
    IF d # <<>>
    THEN IF Matching(d, rec.date) # {}
         THEN \* every key of record_data is written into the first matching row
              [df |-> [d EXCEPT ![Min(Matching(d, rec.date))] = rec], raised |-> "none"]
         ELSE LET cat == Append(d, ToDate(rec))
              IN  IF Mixed(cat) THEN [df |-> cat, raised |-> "TypeError"]
                  ELSE [df |-> SortDesc(cat), raised |-> "none"]
    ELSE [df |-> <<ToDate(rec)>>, raised |-> "none"]

\* upsert_record on the state st = [df, file, exists]: the state afterwards and
\* the exception raised ("none": the record was returned).
CsvUpsert(st, rec) ==
    LET u == UpsertFrame(st.df, rec)
        s == SaveCsv(u.df, st.file, st.exists)
    IN  IF rec.open = Missing \* required_fields, lines 160-163
        THEN [df |-> st.df, file |-> st.file, exists |-> st.exists, raised |-> "ValueError"]
        ELSE IF u.raised # "none"
        THEN [df |-> u.df, file |-> st.file, exists |-> st.exists, raised |-> u.raised]
        ELSE IF s.raised # "none"
        THEN [df |-> u.df, file |-> st.file, exists |-> st.exists, raised |-> s.raised]
        ELSE [df |-> u.df, file |-> s.file, exists |-> s.exists,
              raised |-> IF CsvGetByDate(u.df, rec.date) = <<>>
                         THEN "RuntimeError" ELSE "none"]

Counts(i, u, s) == [inserted |-> i, updated |-> u, skipped |-> s]

\* The loop of bulk_insert over records[k..]: acc = [df, file, exists, raised, res].
RECURSIVE CsvBulkLoop(_, _, _, _)
CsvBulkLoop(acc, records, k, skip) ==
    IF k > Len(records) \/ acc.raised # "none" THEN acc
    ELSE LET rec == records[k]
             existing == CsvGetByDate(acc.df, rec.date)
             st == [df |-> acc.df, file |-> acc.file, exists |-> acc.exists]
             up == CsvUpsert(st, rec)
             c == acc.res
         IN  IF existing # <<>> /\ skip
             THEN CsvBulkLoop([acc EXCEPT !.res = Counts(c.inserted, c.updated, c.skipped + 1)],
                              records, k + 1, skip)
             ELSE CsvBulkLoop(
                    [df |-> up.df, file |-> up.file, exists |-> up.exists, raised |-> up.raised,
                     res |-> IF up.raised # "none" THEN c
                             ELSE IF existing # <<>>
                                  THEN Counts(c.inserted, c.updated + 1, c.skipped)
                                  ELSE Counts(c.inserted + 1, c.updated, c.skipped)],
                    records, k + 1, skip)

\* CSVDataSource.bulk_insert.
CsvBulkInsert(st, records, skip) ==
    CsvBulkLoop([df |-> st.df, file |-> st.file, exists |-> st.exists,
                 raised |-> "none", res |-> Counts(0, 0, 0)], records, 1, skip)

\* CSVDataSource.delete_by_date_range; res is the number of deleted rows.
CsvDelete(st, lo, hi) ==
    IF st.df = <<>> THEN [df |-> st.df, file |-> st.file, exists |-> st.exists,
                          raised |-> "none", res |-> 0]
    ELSE IF \E i \in DOMAIN st.df : st.df[i].dstr
    THEN \* a str cell compared with < against a datetime.date
         [df |-> st.df, file |-> st.file, exists |-> st.exists, raised |-> "TypeError", res |-> 0]
    ELSE LET Outside(r) == r.date < lo \/ r.date > hi
             kept == SelectSeq(st.df, Outside)
             n == Len(st.df) - Len(kept)
             s == SaveCsv(kept, st.file, st.exists)
         IN  IF n > 0
             THEN [df |-> kept, file |-> s.file, exists |-> s.exists, raised |-> s.raised, res |-> n]
             ELSE [df |-> kept, file |-> st.file, exists |-> st.exists, raised |-> "none", res |-> 0]

(* --------------------------- CDSRepository ----------------------------- *)
\* The row of cds_records that a record_data dictionary and a source give.
DbRow(rec, source) ==
    [date |-> rec.date, open |-> rec.open, high |-> rec.high, low |-> rec.low,
     close |-> rec.close, change_pct |-> rec.change_pct, source |-> source]

DbGetByDate(t, day) == {r \in t : r.date = day}

\* Mutant of DbUpsertStmt: the conflicting row is kept as it is (DO NOTHING).
DbUpsertStmtDoNothing(t, rec, source) ==
    IF rec.close = Null THEN [table |-> t, raised |-> "IntegrityError"]
    ELSE IF DbGetByDate(t, rec.date) # {}
    THEN [table |-> t, raised |-> "none"]
    ELSE [table |-> t \cup {DbRow(rec, source)}, raised |-> "none"]

\* Mutant of DbUpsertStmt: on a conflict the stored open is kept.
DbUpsertStmtKeepsOpen(t, rec, source) ==
    IF rec.close = Null THEN [table |-> t, raised |-> "IntegrityError"]
    ELSE IF DbGetByDate(t, rec.date) # {}
    THEN [table |-> {IF r.date = rec.date THEN [DbRow(rec, source) EXCEPT !.open = r.open]
                     ELSE r : r \in t},
          raised |-> "none"]
    ELSE [table |-> t \cup {DbRow(rec, source)}, raised |-> "none"]

\* Mutant of DbUpsertStmt: a null incoming field keeps the stored value
\* (SET open = COALESCE(excluded.open, open)).
DbUpsertStmtCoalesce(t, rec, source) ==
    IF rec.close = Null THEN [table |-> t, raised |-> "IntegrityError"]
    ELSE IF DbGetByDate(t, rec.date) # {}
    THEN [table |-> {IF r.date = rec.date
                     THEN [DbRow(rec, source) EXCEPT
                               !.open = IF rec.open = Null THEN r.open ELSE rec.open]
                     ELSE r : r \in t},
          raised |-> "none"]
    ELSE [table |-> t \cup {DbRow(rec, source)}, raised |-> "none"]

\* INSERT ... ON CONFLICT (date) DO UPDATE SET open, high, low, close, change_pct,
\* source = excluded.*; close is NOT NULL.
DbUpsertStmt(t, rec, source) ==
    IF rec.close = Null THEN [table |-> t, raised |-> "IntegrityError"]
    ELSE IF DbGetByDate(t, rec.date) # {}
    THEN [table |-> {IF r.date = rec.date THEN DbRow(rec, source) ELSE r : r \in t},
          raised |-> "none"]
    ELSE [table |-> t \cup {DbRow(rec, source)}, raised |-> "none"]

\* Mutant of DbInsertIgnoreStmt: the conflicting row is overwritten.
DbInsertIgnoreStmtOverwrite(t, rec, source) ==
    IF rec.close = Null THEN [table |-> t, raised |-> "IntegrityError", rowcount |-> 0]
    ELSE IF DbGetByDate(t, rec.date) # {}
    THEN [table |-> {IF r.date = rec.date THEN DbRow(rec, source) ELSE r : r \in t},
          raised |-> "none", rowcount |-> 0]
    ELSE [table |-> t \cup {DbRow(rec, source)}, raised |-> "none", rowcount |-> 1]

\* INSERT ... ON CONFLICT (date) DO NOTHING for one row of a multi-row VALUES list.
DbInsertIgnoreStmt(t, rec, source) ==
    IF rec.close = Null THEN [table |-> t, raised |-> "IntegrityError", rowcount |-> 0]
    ELSE IF DbGetByDate(t, rec.date) # {}
    THEN [table |-> t, raised |-> "none", rowcount |-> 0]
    ELSE [table |-> t \cup {DbRow(rec, source)}, raised |-> "none", rowcount |-> 1]

\* CDSRepository.upsert_record: the statement and the commit.
DbUpsert(t, rec, source) == DbUpsertStmt(t, rec, source)

\* The multi-row INSERT of skip mode over records[k..]: acc = [table, raised, rowcount].
RECURSIVE DbSkipLoop(_, _, _, _)
DbSkipLoop(acc, records, k, source) ==
    IF k > Len(records) \/ acc.raised # "none" THEN acc
    ELSE LET s == DbInsertIgnoreStmt(acc.table, records[k], source)
         IN  DbSkipLoop([table |-> s.table, raised |-> s.raised,
                         rowcount |-> acc.rowcount + s.rowcount], records, k + 1, source)

\* The loop of update mode over records[k..]: one upsert statement per record, each
\* counted as inserted (result.rowcount > 0); acc = [table, raised, res].
RECURSIVE DbUpdateLoop(_, _, _, _)
DbUpdateLoop(acc, records, k, source) ==
    IF k > Len(records) \/ acc.raised # "none" THEN acc
    ELSE LET s == DbUpsertStmt(acc.table, records[k], source)
             c == acc.res
         IN  DbUpdateLoop([table |-> s.table, raised |-> s.raised,
                           res |-> IF s.raised = "none"
                                   THEN Counts(c.inserted + 1, c.updated, c.skipped) ELSE c],
                          records, k + 1, source)

\* Mutant of DbBulkInsert: every statement of update mode is committed by itself.
DbBulkInsertPerRowCommit(t, records, source, skip) ==
    IF records = <<>> THEN [table |-> t, raised |-> "none", res |-> Counts(0, 0, 0)]
    ELSE IF skip
    THEN LET s == DbSkipLoop([table |-> t, raised |-> "none", rowcount |-> 0],
                             records, 1, source)
         IN  IF s.raised # "none"
             THEN [table |-> t, raised |-> s.raised, res |-> Counts(0, 0, 0)]
             ELSE [table |-> s.table, raised |-> "none",
                   res |-> Counts(s.rowcount, 0, Len(records) - s.rowcount)]
    ELSE LET u == DbUpdateLoop([table |-> t, raised |-> "none", res |-> Counts(0, 0, 0)],
                               records, 1, source)
         IN  [table |-> u.table, raised |-> u.raised, res |-> u.res]

\* Mutant of DbBulkInsert: update mode executes the statements from the last
\* record to the first, so the first row of a date is the one that stays.
DbBulkInsertFirstWins(t, records, source, skip) ==
    IF records = <<>> THEN [table |-> t, raised |-> "none", res |-> Counts(0, 0, 0)]
    ELSE IF skip
    THEN LET s == DbSkipLoop([table |-> t, raised |-> "none", rowcount |-> 0],
                             records, 1, source)
         IN  IF s.raised # "none"
             THEN [table |-> t, raised |-> s.raised, res |-> Counts(0, 0, 0)]
             ELSE [table |-> s.table, raised |-> "none",
                   res |-> Counts(s.rowcount, 0, Len(records) - s.rowcount)]
    ELSE LET u == DbUpdateLoop([table |-> t, raised |-> "none", res |-> Counts(0, 0, 0)],
                               [i \in DOMAIN records |-> records[Len(records) + 1 - i]],
                               1, source)
         IN  IF u.raised # "none"
             THEN [table |-> t, raised |-> u.raised, res |-> u.res]
             ELSE [table |-> u.table, raised |-> "none", res |-> u.res]

\* CDSRepository.bulk_insert: the statements run in one transaction that is
\* committed at the end; an exception leaves the table as it was.
DbBulkInsert(t, records, source, skip) ==
    IF records = <<>> THEN [table |-> t, raised |-> "none", res |-> Counts(0, 0, 0)]
    ELSE IF skip
    THEN LET s == DbSkipLoop([table |-> t, raised |-> "none", rowcount |-> 0],
                             records, 1, source)
         IN  IF s.raised # "none"
             THEN [table |-> t, raised |-> s.raised, res |-> Counts(0, 0, 0)]
             ELSE [table |-> s.table, raised |-> "none",
                   res |-> Counts(s.rowcount, 0, Len(records) - s.rowcount)]
    ELSE LET u == DbUpdateLoop([table |-> t, raised |-> "none", res |-> Counts(0, 0, 0)],
                               records, 1, source)
         IN  IF u.raised # "none"
             THEN [table |-> t, raised |-> u.raised, res |-> u.res]
             ELSE [table |-> u.table, raised |-> "none", res |-> u.res]

\* select(CDSRecord).order_by(desc(CDSRecord.record_date)).
RECURSIVE DbOrderDesc(_)
DbOrderDesc(t) ==
    IF t = {} THEN <<>>
    ELSE LET m == CHOOSE r \in t : \A q \in t : q.date <= r.date
         IN  <<m>> \o DbOrderDesc(t \ {m})

\* CDSRepository.get_latest(limit): ... .limit(limit).
DbGetLatest(t, n) ==
    SubSeq(DbOrderDesc(t), 1, IF n < Cardinality(t) THEN n ELSE Cardinality(t))

\* CDSRepository.delete_by_date_range.
DbDelete(t, lo, hi) ==
    LET gone == {r \in t : r.date >= lo /\ r.date <= hi}
    IN  [table |-> t \ gone, raised |-> "none", res |-> Cardinality(gone)]

(* ------------------- the store adapters as a state machine ------------- *)
CsvState == [df |-> df, file |-> file, exists |-> fileExists]

PreState == [df |-> df, file |-> file, exists |-> fileExists, table |-> table]

NoCall ==
    [op |-> "none", batch |-> <<>>, skip |-> FALSE, lo |-> 0, hi |-> 0,
     pre |-> [df |-> <<>>, file |-> <<>>, exists |-> FALSE, table |-> {}],
     res |-> Counts(0, 0, 0), n |-> 0, raised |-> "none"]

Call(op, batch, skip, lo, hi, res, n, raised) ==
    [op |-> op, batch |-> batch, skip |-> skip, lo |-> lo, hi |-> hi,
     pre |-> PreState, res |-> res, n |-> n, raised |-> raised]

Idle == last.op = "none"

Source == "investing.com"

\* A caller invokes CSVDataSource.upsert_record(rec).
CsvUpsertRecord(recs) ==
    /\ adapter = "csv" /\ Idle /\ Len(df) < MaxRows
    /\ \E rec \in recs :
         LET r == CsvUpsert(CsvState, rec)
         IN  /\ df' = r.df /\ file' = r.file /\ fileExists' = r.exists
             /\ last' = Call("upsert_record", <<rec>>, FALSE, 0, 0, Counts(0, 0, 0), 0, r.raised)
    /\ UNCHANGED <<adapter, table>> /\ UNCHANGED runVars

\* A caller invokes CSVDataSource.bulk_insert(records, skip_duplicates=skip).
CsvBulk(recs) ==
    /\ adapter = "csv" /\ Idle /\ Len(df) < MaxRows
    /\ \E records \in SeqsUpTo(recs, MaxBatch), skip \in BOOLEAN :
         LET r == CsvBulkInsert(CsvState, records, skip)
         IN  /\ df' = r.df /\ file' = r.file /\ fileExists' = r.exists
             /\ last' = Call("bulk_insert", records, skip, 0, 0, r.res, 0, r.raised)
    /\ UNCHANGED <<adapter, table>> /\ UNCHANGED runVars

\* A caller invokes CSVDataSource.delete_by_date_range(lo, hi).
CsvDeleteRange ==
    /\ adapter = "csv" /\ Idle
    /\ \E lo \in Dates, hi \in Dates :
         /\ lo <= hi
         /\ LET r == CsvDelete(CsvState, lo, hi)
            IN  /\ df' = r.df /\ file' = r.file /\ fileExists' = r.exists
                /\ last' = Call("delete_by_date_range", <<>>, FALSE, lo, hi,
                                Counts(0, 0, 0), r.res, r.raised)
    /\ UNCHANGED <<adapter, table>> /\ UNCHANGED runVars

\* A new CSVDataSource is constructed on the same path (__init__ runs _load_csv).
CsvReload ==
    /\ adapter = "csv" /\ Idle
    /\ df' = LoadCsv(file, fileExists)
    /\ UNCHANGED <<adapter, file, fileExists, table, last>> /\ UNCHANGED runVars

\* A caller invokes CDSRepository.upsert_record(rec).
DbUpsertRecs(recs) ==
    /\ adapter = "db" /\ Idle
    /\ \E rec \in recs :
         LET r == DbUpsert(table, rec, Source)
         IN  /\ table' = r.table
             /\ last' = Call("upsert_record", <<rec>>, FALSE, 0, 0, Counts(0, 0, 0), 0, r.raised)
    /\ UNCHANGED <<adapter, df, file, fileExists>> /\ UNCHANGED runVars

\* A caller invokes CDSRepository.bulk_insert(records, skip_duplicates=skip).
DbBulkRecs(recs) ==
    /\ adapter = "db" /\ Idle
    /\ \E records \in SeqsUpTo(recs, MaxBatch), skip \in BOOLEAN :
         LET r == DbBulkInsert(table, records, Source, skip)
         IN  /\ table' = r.table
             /\ last' = Call("bulk_insert", records, skip, 0, 0, r.res, 0, r.raised)
    /\ UNCHANGED <<adapter, df, file, fileExists>> /\ UNCHANGED runVars

\* A caller invokes CDSRepository.delete_by_date_range(lo, hi).
DbDeleteRange ==
    /\ adapter = "db" /\ Idle
    /\ \E lo \in Dates, hi \in Dates :
         /\ lo <= hi
         /\ LET r == DbDelete(table, lo, hi)
            IN  /\ table' = r.table
                /\ last' = Call("delete_by_date_range", <<>>, FALSE, lo, hi,
                                Counts(0, 0, 0), r.res, r.raised)
    /\ UNCHANGED <<adapter, df, file, fileExists>> /\ UNCHANGED runVars

\* The caller has the result (or the exception) of its call and goes on.
Return ==
    /\ ~Idle
    /\ last' = NoCall
    /\ UNCHANGED <<adapter, df, file, fileExists, table>> /\ UNCHANGED runVars

\* REQUEST_RETRIES, line 42 (the default of the environment variable).
RequestRetries == 3

\* The outcome of an attempt that got no response (connection error, timeout).
ConnError == 0

\* Retry(status_forcelist=...), line 61.
StatusForcelist == {429, 500, 502, 503, 504}

\* What an attempt may meet: a page, client errors, server errors, no response.
Responses == {200, 404, 429, 501, 503, ConnError}

\* fetch_html has not been called.
NoFetch == [pc |-> "get", codes |-> <<>>, left |-> RequestRetries]

\* The two concurrent runs, none of them started.
Runs == {1, 2}

NoProc ==
    [pc |-> "start", batch |-> <<>>, k |-> 1, df |-> <<>>, pend |-> {},
     res |-> Counts(0, 0, 0), early |-> FALSE]

NoTwo ==
    [p |-> [w \in Runs |-> NoProc], lastW |-> 0,
     pre |-> [df |-> <<>>, file |-> <<>>, exists |-> FALSE, table |-> {}]]

\* No pipeline run is in progress.
NoRun ==
    [pc |-> "idle", entry |-> "none", force |-> "none", useDb |-> FALSE,
     http |-> "none", page |-> [shape |-> "missing", rows |-> <<>>],
     resA |-> [kind |-> "none", rows |-> <<>>], resB |-> [kind |-> "none", rows |-> <<>>],
     triedA |-> 0, triedB |-> 0, dfNew |-> <<>>, failed |-> "none", outcome |-> "none",
     pre |-> [df |-> <<>>, file |-> <<>>, exists |-> FALSE, table |-> {}]]

(* --------------------------- APIKeyRepository --------------------------- *)
\* The plain-text keys a caller may present.
KeyTexts == 1..MaxKeys

\* hash_key: SHA-256 of the text, taken as injective; the hashes are not texts.
hash_key(key) == MaxKeys + key

KeyIds == 1..MaxKeys

\* Two requests at a time, each with a session of its own (get_session); a slot
\* that is idle again stands for a new session.
Sessions == {1, 2}

Times == 1..MaxTime

\* APIKey(key_hash, expires_at, is_active=True) with the column defaults.
APIKeyRow(id, h, exp) ==
    [id |-> id, key_hash |-> h, is_active |-> TRUE, expires_at |-> exp,
     last_used_at |-> Null, request_count |-> 0]

\* select(APIKey).where(key_hash == h, is_active == True): key_hash is unique.
SelectActive(keys, h) == {r \in keys : r.key_hash = h /\ r.is_active}

\* select(APIKey).where(id == key_id).
GetById(keys, id) == {r \in keys : r.id = id}

\* validate_key found no usable key.
NoObject == [id |-> 0, last_used_at |-> Null, request_count |-> 0]

\* Mutant of ValidateLoad: the counter is left as it was read.
ValidateLoadNoIncrement(keys, key, t) ==
    LET found == SelectActive(keys, hash_key(key))
        r == CHOOSE x \in found : TRUE
    IN  IF found = {} THEN NoObject
        ELSE IF r.expires_at # Null /\ t > r.expires_at THEN NoObject
        ELSE [id |-> r.id, last_used_at |-> t, request_count |-> r.request_count]

\* Mutant of ValidateLoad: is_active is not part of the lookup.
ValidateLoadAnyStatus(keys, key, t) ==
    LET found == {x \in keys : x.key_hash = hash_key(key)}
        r == CHOOSE x \in found : TRUE
    IN  IF found = {} THEN NoObject
        ELSE IF r.expires_at # Null /\ t > r.expires_at THEN NoObject
        ELSE [id |-> r.id, last_used_at |-> t, request_count |-> r.request_count + 1]

\* validate_key up to its commit: the row is selected into a new session, the
\* expiry is checked, and last_used_at and request_count are set on the loaded
\* object (request_count to the value read plus one). NoObject: None is returned.
ValidateLoad(keys, key, t) ==
    LET found == SelectActive(keys, hash_key(key))
        r == CHOOSE x \in found : TRUE
    IN  IF found = {} THEN NoObject
        ELSE IF r.expires_at # Null /\ t > r.expires_at THEN NoObject
        ELSE [id |-> r.id, last_used_at |-> t, request_count |-> r.request_count + 1]

\* session.commit() of validate_key: UPDATE api_keys SET last_used_at = :v,
\* request_count = :n WHERE id = :id, with the values of the loaded object.
ValidateFlush(keys, obj) ==
    {IF r.id = obj.id
     THEN [r EXCEPT !.last_used_at = obj.last_used_at, !.request_count = obj.request_count]
     ELSE r : r \in keys}

\* revoke_key's change: UPDATE api_keys SET is_active = false WHERE id = :id.
RevokeFlush(keys, id) == {IF r.id = id THEN [r EXCEPT !.is_active = FALSE] ELSE r : r \in keys}

NoSession == [pc |-> "idle", key |-> 0, obj |-> NoObject, revoked |-> FALSE]

\* A validate_key call that has ended: its operation, arguments and result, the
\* table before its commit (with one call at a time: before the call) and whether
\* the key it names had been revoked when it started.
KeyCall(op, key, id, res, pre, revoked) ==
    [op |-> op, key |-> key, id |-> id, res |-> res, pre |-> pre, revoked |-> revoked]

NoKeyCall == KeyCall("none", 0, 0, "none", {}, FALSE)

NoLog == [last |-> NoKeyCall, revoked |-> {}, ok |-> [i \in KeyIds |-> 0], calls |-> 0]

\* The routes of the CDS router under the prefix /api.
Paths == {"/api/cds", "/api/cds/latest", "/api/cds/statistics", "/api/cds/info"}

NoHeader == 0

NoRequest ==
    [pc |-> "none", path |-> "none", header |-> NoHeader, session |-> "none",
     validated |-> "none", status |-> 0, queried |-> FALSE]

\* No key has been created and no request has arrived.
KeysInit ==
    /\ apiKeys = {} /\ nextId = 1 /\ now = 1
    /\ sess = [s \in Sessions |-> NoSession]
    /\ akLog = NoLog
    /\ req = NoRequest

\* validate_key(key) in session s, up to the await of its commit. When it returns
\* None the call ends here.
ValidateSelect(s, key) ==
    /\ akLog.calls < MaxCalls
    /\ sess[s].pc = "idle" /\ \A o \in Sessions : o < s => sess[o].pc # "idle"
    /\ LET obj == ValidateLoad(apiKeys, key, now)
           rev == \E r \in apiKeys : r.key_hash = hash_key(key) /\ r.id \in akLog.revoked
       IN  IF obj = NoObject
           THEN /\ akLog' = [akLog EXCEPT
                               !.last = KeyCall("validate_key", key, 0, "None", apiKeys, rev),
                               !.calls = @ + 1]
                /\ UNCHANGED sess
           ELSE /\ sess' = [sess EXCEPT ![s] = [pc |-> "loaded", key |-> key, obj |-> obj,
                                                revoked |-> rev]]
                /\ akLog' = [akLog EXCEPT !.last = NoKeyCall, !.calls = @ + 1]
    /\ UNCHANGED <<apiKeys, nextId, now>>

\* The commit of validate_key in session s and its return. The UPDATE of a row
\* that is gone matches nothing and the flush raises StaleDataError.
CommitEffect(s) ==
    /\ sess[s].pc = "loaded"
    /\ IF GetById(apiKeys, sess[s].obj.id) # {}
       THEN /\ apiKeys' = ValidateFlush(apiKeys, sess[s].obj)
            /\ akLog' = [akLog EXCEPT
                           !.last = KeyCall("validate_key", sess[s].key, sess[s].obj.id,
                                            "record", apiKeys, sess[s].revoked),
                           !.ok[sess[s].obj.id] = @ + 1]
       ELSE /\ apiKeys' = apiKeys
            /\ akLog' = [akLog EXCEPT
                           !.last = KeyCall("validate_key", sess[s].key, sess[s].obj.id,
                                            "StaleDataError", apiKeys, sess[s].revoked)]
    /\ sess' = [sess EXCEPT ![s] = NoSession]
    /\ UNCHANGED <<nextId, now>>

\* Some session starts validate_key with some key text.
Validate ==
    /\ \E s \in Sessions, key \in KeyTexts : ValidateSelect(s, key)
    /\ UNCHANGED req /\ UNCHANGED <<adapter, df, file, fileExists, table, last, cfg, run, runLog, backups, two, net>>

\* No validate_key call is in progress.
Sequential == \A s \in Sessions : sess[s].pc = "idle"

ValidateCommit ==
    /\ \E s \in Sessions : CommitEffect(s)
    /\ UNCHANGED req /\ UNCHANGED <<adapter, df, file, fileExists, table, last, cfg, run, runLog, backups, two, net>>

\* create_key(key, expires_at): a second row with the same key_hash violates the
\* unique constraint. A new key takes the first text that no row has; it never
\* expires, or expires when the clock passes its first instant.
CreateKey ==
    /\ nextId <= MaxKeys
    /\ \E key \in KeyTexts, exp \in {Null, 1} :
         IF \E r \in apiKeys : r.key_hash = hash_key(key)
         THEN /\ exp = Null \* IntegrityError
              /\ akLog' = [akLog EXCEPT !.last = NoKeyCall]
              /\ UNCHANGED <<apiKeys, nextId>>
         ELSE /\ \A k \in KeyTexts : k < key => \E r \in apiKeys : r.key_hash = hash_key(k)
              /\ apiKeys' = apiKeys \cup {APIKeyRow(nextId, hash_key(key), exp)}
              /\ nextId' = nextId + 1
              /\ akLog' = [akLog EXCEPT !.last = NoKeyCall]
    /\ UNCHANGED <<now, sess, req>>
    /\ UNCHANGED <<adapter, df, file, fileExists, table, last, cfg, run, runLog, backups, two, net>>

\* revoke_key(id): get_by_id, is_active = False, commit; True is returned when the
\* row exists, and akLog.revoked remembers the id.
RevokeKey ==
    /\ \E id \in KeyIds :
         /\ apiKeys' = RevokeFlush(apiKeys, id)
         /\ akLog' = [akLog EXCEPT
                        !.last = NoKeyCall,
                        !.revoked = IF GetById(apiKeys, id) # {} THEN @ \cup {id} ELSE @]
    /\ UNCHANGED <<nextId, now, sess, req>>
    /\ UNCHANGED <<adapter, df, file, fileExists, table, last, cfg, run, runLog, backups, two, net>>

\* delete_key(id): get_by_id, session.delete, commit. The id is never given
\* again, and what akLog remembers of the key goes with the row.
DeleteKey ==
    /\ \E id \in KeyIds :
         /\ apiKeys' = apiKeys \ GetById(apiKeys, id)
         /\ akLog' = [akLog EXCEPT !.last = NoKeyCall, !.revoked = @ \ {id}, !.ok[id] = 0]
    /\ UNCHANGED <<nextId, now, sess, req>>
    /\ UNCHANGED <<adapter, df, file, fileExists, table, last, cfg, run, runLog, backups, two, net>>

\* Time passes.
Tick ==
    /\ now < MaxTime
    /\ now' = now + 1
    /\ UNCHANGED <<apiKeys, nextId, sess, akLog, req>>
    /\ UNCHANGED <<adapter, df, file, fileExists, table, last, cfg, run, runLog, backups, two, net>>

NextKey ==
    \/ CreateKey
    \/ Validate
    \/ ValidateCommit
    \/ RevokeKey
    \/ DeleteKey
    \/ Tick

\* The same with one repository call at a time.
NextKeySeq ==
    \/ Sequential /\ CreateKey
    \/ Sequential /\ Validate
    \/ ValidateCommit
    \/ Sequential /\ RevokeKey
    \/ Sequential /\ DeleteKey
    \/ Tick

(* ------------------------- api/auth.py, api/routes/cds.py --------------- *)
\* What Depends(get_session) hands to verify_api_key: a session (the override of
\* the test client), or the object that calling the @contextmanager function
\* get_session returns, which has no execute().
Injected == {"AsyncSession", "contextmanager"}

\* Mutant of RouteDependencies: /api/cds/statistics is served without the dependency.
RouteDependenciesOpenStatistics(path) ==
    IF path \in {"/api/cds", "/api/cds/latest"} THEN {"verify_api_key"} ELSE {}

\* The dependencies the route functions declare: Depends(verify_api_key) on
\* get_cds_records, get_latest_cds and get_cds_statistics, none on get_cds_info.
RouteDependencies(path) ==
    IF path \in {"/api/cds", "/api/cds/latest", "/api/cds/statistics"}
    THEN {"verify_api_key"} ELSE {}

\* A request arrives; the dependencies of its route are solved before the route
\* function runs.
HttpRequest ==
    /\ req.pc \in {"none", "done"}
    /\ \E path \in Paths, header \in {NoHeader} \cup KeyTexts, session \in Injected :
         \* what is injected matters only where the session is used
         /\ (RouteDependencies(path) = {} \/ header = NoHeader) => session = "AsyncSession"
         /\ req' = [NoRequest EXCEPT
                      !.pc = IF RouteDependencies(path) = {} THEN "handler" ELSE "verify",
                      !.path = path, !.header = header, !.session = session]
    /\ UNCHANGED <<apiKeys, nextId, now, sess, akLog>>
    /\ UNCHANGED <<adapter, df, file, fileExists, table, last, cfg, run, runLog, backups, two, net>>

\* verify_api_key: 401 without the header; otherwise validate_key, whose None is
\* answered 401 and whose exception is a 500.
HttpVerify ==
    /\ req.pc = "verify"
    /\ IF req.header = NoHeader
       THEN /\ req' = [req EXCEPT !.pc = "done", !.status = 401]
            /\ UNCHANGED <<apiKeys, nextId, now, sess, akLog>>
       ELSE IF req.session = "contextmanager"
       THEN /\ req' = [req EXCEPT !.pc = "done", !.status = 500, !.validated = "AttributeError"]
            /\ UNCHANGED <<apiKeys, nextId, now, sess, akLog>>
       ELSE /\ ValidateSelect(1, req.header)
            /\ req' = IF ValidateLoad(apiKeys, req.header, now) = NoObject
                      THEN [req EXCEPT !.pc = "done", !.status = 401, !.validated = "None"]
                      ELSE [req EXCEPT !.pc = "commit"]
    /\ UNCHANGED <<adapter, df, file, fileExists, table, last, cfg, run, runLog, backups, two, net>>

\* The commit of validate_key inside verify_api_key, which then returns the name.
HttpCommit ==
    /\ req.pc = "commit"
    /\ CommitEffect(1)
    /\ req' = IF GetById(apiKeys, sess[1].obj.id) # {}
              THEN [req EXCEPT !.pc = "handler", !.validated = "record"]
              ELSE [req EXCEPT !.pc = "done", !.status = 500, !.validated = "StaleDataError"]
    /\ UNCHANGED <<adapter, df, file, fileExists, table, last, cfg, run, runLog, backups, two, net>>

\* The route function: the protected ones query cds_records; get_cds_info does so
\* only with include_stats, and answers 200 in any case.
HttpHandler ==
    /\ req.pc = "handler"
    /\ \E include_stats \in BOOLEAN :
         req' = [req EXCEPT !.pc = "done", !.status = 200,
                            !.queried = (req.path # "/api/cds/info") \/ include_stats]
    /\ UNCHANGED <<apiKeys, nextId, now, sess, akLog>>
    /\ UNCHANGED <<adapter, df, file, fileExists, table, last, cfg, run, runLog, backups, two, net>>

NextHttp ==
    \/ CreateKey
    \/ RevokeKey
    \/ HttpRequest
    \/ HttpVerify
    \/ HttpCommit
    \/ HttpHandler

\* Construction: no CSV file yet (an empty frame), an empty table.
Init ==
    /\ adapter \in {"csv", "db"}
    /\ df = <<>> /\ file = <<>> /\ fileExists = FALSE
    /\ table = {}
    /\ last = NoCall
    /\ cfg = [dbUrl |-> FALSE, env |-> "development"]
    /\ run = NoRun /\ runLog = <<>> /\ backups = {} /\ two = NoTwo /\ net = NoFetch /\ KeysInit

CsvUpsertDate == CsvUpsertRecord(DateRecs)
CsvBulkDate == CsvBulk(DateRecs)
DbUpsertRecord == DbUpsertRecs(DateRecs)
DbBulk == DbBulkRecs(DateRecs)

Next ==
    \/ CsvUpsertDate
    \/ CsvBulkDate
    \/ CsvDeleteRange
    \/ CsvReload
    \/ DbUpsertRecord
    \/ DbBulk
    \/ DbDeleteRange
    \/ Return

\* Both adapters, called with records whose date is a datetime.date.
Spec == Init /\ [][Next]_vars

\* The API key repository under concurrent sessions, and with one call at a time.
InitKey == Init /\ adapter = "db"
SpecKey == InitKey /\ [][NextKey]_vars
SpecKeySeq == InitKey /\ [][NextKeySeq]_vars

\* Requests to the CDS routes, one at a time, while keys are created and revoked.
SpecHttp == InitKey /\ [][NextHttp]_vars

CsvUpsertStr == CsvUpsertRecord(StrRecs)
CsvBulkStr == CsvBulk(StrRecs)

InitStr == Init /\ adapter = "csv"

NextStr ==
    \/ CsvUpsertStr
    \/ CsvBulkStr
    \/ CsvDeleteRange
    \/ CsvReload
    \/ Return

\* The file-based adapter, called with records whose date may be an ISO string.
SpecStr == InitStr /\ [][NextStr]_vars

CsvUpsertBad == CsvUpsertRecord(DateRecs \cup NullCloseRecs \cup MissingKeyRecs)
CsvBulkBad == CsvBulk(DateRecs \cup NullCloseRecs \cup MissingKeyRecs)
DbUpsertBad == DbUpsertRecs(DateRecs \cup NullCloseRecs)
DbBulkBad == DbBulkRecs(DateRecs \cup NullCloseRecs)

NextBad ==
    \/ CsvUpsertBad
    \/ CsvBulkBad
    \/ CsvReload
    \/ DbUpsertBad
    \/ DbBulkBad
    \/ Return

\* Both adapters, called also with records that lack a close or a required key.
SpecBad == Init /\ [][NextBad]_vars

(* ------------------------- the adapters' claims ------------------------ *)
\* The Observation a stored row holds.
Fields(r) ==
    [date |-> r.date, open |-> r.open, high |-> r.high, low |-> r.low,
     close |-> r.close, change_pct |-> r.change_pct]

\* The dates the adapter under test finds in the store state st.
StoreDates(st) ==
    IF adapter = "csv"
    THEN {st.df[i].date : i \in {j \in DOMAIN st.df : ~st.df[j].dstr}}
    ELSE {r.date : r \in st.table}

\* get_by_date(day) of the adapter under test on the store state st, as a set.
Obs(st, day) ==
    IF adapter = "csv"
    THEN {Fields(r) : r \in Range(CsvGetByDate(st.df, day))}
    ELSE {Fields(r) : r \in DbGetByDate(st.table, day)}

\* The persisted Observations of date day: the file's rows, or the table's.
Persisted(st, day) ==
    IF adapter = "csv"
    THEN {Fields(st.file[i]) : i \in {j \in DOMAIN st.file : st.file[j].date = day}}
    ELSE {Fields(r) : r \in DbGetByDate(st.table, day)}

\* Row i of the batch finds its date in the store: it was there before the call
\* or an earlier row of the batch has put it there.
ExistedAt(pre, batch, i) ==
    \/ batch[i].date \in StoreDates(pre)
    \/ \E j \in 1..(i - 1) : batch[j].date = batch[i].date

LastOfDate(batch, i) == \A j \in (i + 1)..Len(batch) : batch[j].date # batch[i].date

Returned(op) == last.op = op /\ last.raised = "none"

\* C1: in every reachable store state there is at most one persisted Observation
\* per date (no two rows of the CSV file, and no two rows of cds_records, share a date).
C1_OnePerDate ==
    /\ \A i, j \in DOMAIN file : file[i].date = file[j].date => i = j
    /\ \A r, q \in table : r.date = q.date => r = q

\* C2: bulk_insert(B, skip_duplicates=False) is idempotent: running the batch that has
\* just been applied once more on the resulting store leaves the persisted
\* Observations (and the adapter's view of them) exactly as they are.
C2_Idempotent ==
    (Returned("bulk_insert") /\ ~last.skip) =>
        IF adapter = "csv"
        THEN LET again == CsvBulkInsert(CsvState, last.batch, FALSE)
             IN  /\ again.raised = "none"
                 /\ again.file = file /\ again.exists = fileExists
                 /\ again.df = df
        ELSE LET again == DbBulkInsert(table, last.batch, Source, FALSE)
             IN  again.raised = "none" /\ again.table = table

\* C2 witness: an update-mode batch that corrected a stored close and added a new
\* date has returned.
C2_Witness ==
    /\ Returned("bulk_insert") /\ ~last.skip
    /\ \E i \in DOMAIN last.batch :
         /\ last.batch[i].date \in StoreDates(last.pre)
         /\ \E o \in Obs(last.pre, last.batch[i].date) : o.close # last.batch[i].close
    /\ \E i \in DOMAIN last.batch : last.batch[i].date \notin StoreDates(last.pre)

\* C3: in update mode bulk_insert counts every incoming row whose date already exists
\* as updated and every row whose date does not yet exist as inserted.
C3_UpdateCounts ==
    (Returned("bulk_insert") /\ ~last.skip) =>
        /\ last.res.updated =
             Cardinality({i \in DOMAIN last.batch : ExistedAt(last.pre, last.batch, i)})
        /\ last.res.inserted =
             Cardinality({i \in DOMAIN last.batch : ~ExistedAt(last.pre, last.batch, i)})

\* C3 for the file-based adapter alone, where the counts are right.
C3_UpdateCountsCsv == adapter = "csv" => C3_UpdateCounts

\* C4: after bulk_insert in update mode, get_by_date(D) of a date D that was stored
\* before returns the close of the incoming row for D (of the last one, when the
\* batch has several rows for D).
C4_CloseOverwritten ==
    (Returned("bulk_insert") /\ ~last.skip) =>
        \A i \in DOMAIN last.batch :
            (last.batch[i].date \in StoreDates(last.pre) /\ LastOfDate(last.batch, i)) =>
                /\ Obs(PreState, last.batch[i].date) # {}
                /\ \A o \in Obs(PreState, last.batch[i].date) : o.close = last.batch[i].close

\* C4 witness: the batch held exactly one row for a stored date, with another close.
C4_Witness ==
    /\ Returned("bulk_insert") /\ ~last.skip
    /\ \E i \in DOMAIN last.batch :
         /\ LastOfDate(last.batch, i)
         /\ ~\E j \in 1..(i - 1) : last.batch[j].date = last.batch[i].date
         /\ \E o \in Obs(last.pre, last.batch[i].date) : o.close # last.batch[i].close

\* C5: in skip mode every incoming row whose date already exists is counted as
\* skipped and the stored Observation of that date stays as it was; only rows with
\* new dates are written (the first row of each new date).
C5_SkipLeavesStored ==
    (Returned("bulk_insert") /\ last.skip) =>
        /\ last.res.skipped =
             Cardinality({i \in DOMAIN last.batch : ExistedAt(last.pre, last.batch, i)})
        /\ last.res.inserted =
             Cardinality({i \in DOMAIN last.batch : ~ExistedAt(last.pre, last.batch, i)})
        /\ last.res.updated = 0
        /\ \A d \in StoreDates(last.pre) :
             /\ Obs(PreState, d) = Obs(last.pre, d)
             /\ Persisted(PreState, d) = Persisted(last.pre, d)
        /\ StoreDates(PreState) =
             StoreDates(last.pre) \cup {last.batch[i].date : i \in DOMAIN last.batch}
        /\ \A i \in DOMAIN last.batch :
             ~ExistedAt(last.pre, last.batch, i) =>
                 Obs(PreState, last.batch[i].date) = {Fields(last.batch[i])}

\* C5 witness: a skip-mode batch with a row for a stored date (another close) and a
\* row for a new date has returned.
C5_Witness ==
    /\ Returned("bulk_insert") /\ last.skip
    /\ last.res.skipped >= 1 /\ last.res.inserted >= 1
    /\ \E i \in DOMAIN last.batch :
         \E o \in Obs(last.pre, last.batch[i].date) : o.close # last.batch[i].close

(* ------------------------------ the pipeline --------------------------- *)
Days == 1..MaxDay

\* A row of the fetched table after the cells are parsed: date Null is NaT (the
\* date did not parse), close Null is NaN (_clean_number returned None).
RawRow(d, q) ==
    [date |-> d, open |-> q.open, high |-> Null, low |-> Null,
     close |-> q.close, change_pct |-> Null]

BadQuote == [open |-> 1, close |-> Null]

\* The table of the page, newest day first: per day no row, a row with the new
\* quote ("ok") or a row whose price does not parse ("bad").
RECURSIVE DayRows(_, _)
DayRows(f, d) ==
    IF d = 0 THEN <<>>
    ELSE (IF f[d] = "absent" THEN <<>>
          ELSE <<RawRow(d, IF f[d] = "ok" THEN NewQuote ELSE BadQuote)>>) \o DayRows(f, d - 1)

\* The pages a fetch may return. shape: the table is a plain <table> ("generic"),
\* is reachable only by TABLE_XPATH ("nested"), is not there ("missing"), or the
\* markup makes read_html raise something other than ValueError ("broken").
Pages ==
    {[shape |-> sh, rows |-> DayRows(f, MaxDay) \o nat] :
        sh \in {"generic", "nested"},
        f \in [Days -> {"absent", "ok", "bad"}],
        nat \in {<<>>, <<RawRow(Null, NewQuote)>>}}
    \cup {[shape |-> "missing", rows |-> <<>>], [shape |-> "broken", rows |-> <<>>]}

\* Mutant of FetchHtml: raise_for_status() is missing, an error response's body is
\* returned like a page.
FetchHtmlNoRaise(http, body) == [raised |-> FALSE, page |-> body]

\* fetch_html: the response's text, or the exception of the session (retries
\* exhausted, connection error) or of raise_for_status().
FetchHtml(http, body) ==
    IF http = "ok" THEN [raised |-> FALSE, page |-> body]
    ELSE [raised |-> TRUE, page |-> body]

InsertAsc(sorted, r) ==
    LET k == Cardinality({i \in DOMAIN sorted : sorted[i].date <= r.date})
    IN  SubSeq(sorted, 1, k) \o <<r>> \o SubSeq(sorted, k + 1, Len(sorted))

\* sort_values("date"): ascending, equal keys keep their order.
RECURSIVE SortAsc(_)
SortAsc(rows) ==
    IF rows = <<>> THEN <<>>
    ELSE InsertAsc(SortAsc(SubSeq(rows, 1, Len(rows) - 1)), rows[Len(rows)])

\* Mutant of Normalize: the rows are left in the order of the page.
NormalizeUnsorted(rows) ==
    LET HasDate(r) == r.date # Null
        HasClose(r) == r.close # Null
    IN  SelectSeq(SelectSeq(rows, HasDate), HasClose)

\* Mutant of Normalize: rows without a close are kept.
NormalizeKeepsNoClose(rows) ==
    LET HasDate(r) == r.date # Null
    IN  SortAsc(SelectSeq(rows, HasDate))

\* _normalize_investing_table, lines 207-214: rows without a date and rows without
\* a close are dropped, the rest is sorted from the oldest to the newest.
Normalize(rows) ==
    LET HasDate(r) == r.date # Null
        HasClose(r) == r.close # Null
    IN  SortAsc(SelectSeq(SelectSeq(rows, HasDate), HasClose))

\* parse_table_with_read_html: None, the normalized frame, or an exception.
ReadHtml(page) ==
    IF page.shape = "generic" THEN [kind |-> "df", rows |-> Normalize(page.rows)]
    ELSE IF page.shape = "broken" THEN [kind |-> "raise", rows |-> <<>>]
    ELSE [kind |-> "none", rows |-> <<>>]

\* parse_table_with_xpath: None (also for any exception) or the normalized frame.
XPath(page) ==
    IF page.shape \in {"generic", "nested"} /\ page.rows # <<>>
    THEN [kind |-> "df", rows |-> Normalize(page.rows)]
    ELSE [kind |-> "none", rows |-> <<>>]

\* Mutant of Usable: an empty frame is taken as a captured table.
UsableIfNotNone(res) == res.kind = "df"

\* fetch_investing_cds, lines 222 and 229: df is not None and not df.empty.
Usable(res) == res.kind = "df" /\ res.rows # <<>>

\* save_to_database / save_to_csv: the records built from df_new's rows.
ToRecords(rows) ==
    [i \in DOMAIN rows |->
        [date |-> rows[i].date, dstr |-> FALSE, open |-> rows[i].open, high |-> rows[i].high,
         low |-> rows[i].low, close |-> rows[i].close, change_pct |-> rows[i].change_pct]]

\* Mutant of UseDatabase: without a force mode the environment is not looked at.
UseDatabaseIgnoringEnv(force) ==
    IF force = "csv" THEN FALSE
    ELSE IF force = "db" THEN TRUE
    ELSE cfg.dbUrl

\* run_update, lines 50-60, and async_main, line 363: the storage used.
UseDatabase(force) ==
    IF force = "csv" THEN FALSE
    ELSE IF force = "db" THEN TRUE
    ELSE cfg.dbUrl /\ cfg.env = "production"

\* run_update's return value for a run that ended "ok", "fetch_failed" or "save_failed".
RunUpdateReturn(result) == IF result = "ok" THEN "True" ELSE "False"

\* async_main swallows a failed fetch (line 375: return) and lets the exception of
\* save_to_database / save_to_csv through.
AsyncMainRaises(result) == result = "save_failed"

\* update_cds: 500 when run_cds_update raised, otherwise run_cds_update's
\* {"status": "success", ...}.
CronResponse(result) == IF AsyncMainRaises(result) THEN "http500" ELSE "success"

Outcome(entry, result) ==
    IF entry = "run_update" THEN RunUpdateReturn(result) ELSE CronResponse(result)

\* The run ends: what its entry point reports.
Finish(result, failed) ==
    run' = [run EXCEPT !.pc = "done", !.failed = failed,
                       !.outcome = Outcome(run.entry, result)]

LogEntry(status, fetched, inserted, updated) ==
    [status |-> status, records_fetched |-> fetched, records_inserted |-> inserted,
     records_updated |-> updated]

\* run_update(force_mode) or POST /cron/update-cds (async_main) is invoked.
RunStart ==
    /\ run.pc = "idle"
    /\ \E entry \in {"run_update", "cron"}, force \in {"none", "csv", "db"} :
         /\ entry = "cron" => force = "none"
         /\ IF entry = "run_update" /\ force = "db" /\ ~cfg.dbUrl
            THEN /\ run' = [run EXCEPT !.pc = "done", !.entry = entry, !.force = force,
                                       !.failed = "config", !.outcome = "False",
                                       !.pre = PreState]
                 /\ UNCHANGED adapter
            ELSE /\ run' = [run EXCEPT !.pc = "fetch", !.entry = entry, !.force = force,
                                       !.useDb = UseDatabase(force), !.pre = PreState]
                 /\ adapter' = IF UseDatabase(force) THEN "db" ELSE "csv"
    /\ UNCHANGED <<df, file, fileExists, table, last, cfg, two, net, runLog, backups>> /\ UNCHANGED keyVars

\* fetch_investing_cds, line 218: the page is fetched.
FetchStep ==
    /\ run.pc = "fetch"
    /\ \E http \in {"ok", "error"}, body \in Pages :
         LET r == FetchHtml(http, body)
         IN  IF r.raised
             THEN run' = [run EXCEPT !.pc = "done", !.http = http, !.failed = "fetch",
                                     !.outcome = Outcome(run.entry, "fetch_failed")]
             ELSE run' = [run EXCEPT !.pc = "parseA", !.http = http, !.page = r.page]
    /\ UNCHANGED <<adapter, df, file, fileExists, table, last, cfg, two, net, runLog, backups>> /\ UNCHANGED keyVars

\* fetch_investing_cds, lines 221-224: the generic strategy.
ParseA ==
    /\ run.pc = "parseA"
    /\ LET res == ReadHtml(run.page)
           tried == [run EXCEPT !.resA = res, !.triedA = run.triedA + 1]
       IN  IF res.kind = "raise"
           THEN run' = [tried EXCEPT !.pc = "done", !.failed = "extract",
                                     !.outcome = Outcome(run.entry, "fetch_failed")]
           ELSE IF Usable(res)
           THEN run' = [tried EXCEPT !.pc = "save", !.dfNew = res.rows]
           ELSE run' = [tried EXCEPT !.pc = "parseB"]
    /\ UNCHANGED <<adapter, df, file, fileExists, table, last, cfg, two, net, runLog, backups>> /\ UNCHANGED keyVars

\* fetch_investing_cds, lines 227-234: the positional strategy, then RuntimeError.
ParseB ==
    /\ run.pc = "parseB"
    /\ LET res == XPath(run.page)
           tried == [run EXCEPT !.resB = res, !.triedB = run.triedB + 1]
       IN  IF Usable(res)
           THEN run' = [tried EXCEPT !.pc = "save", !.dfNew = res.rows]
           ELSE run' = [tried EXCEPT !.pc = "done", !.failed = "extract",
                                     !.outcome = Outcome(run.entry, "fetch_failed")]
    /\ UNCHANGED <<adapter, df, file, fileExists, table, last, cfg, two, net, runLog, backups>> /\ UNCHANGED keyVars

\* save_to_database, lines 387-404: the session and bulk_insert; ok = FALSE: the
\* database cannot be reached.
DbSaveBulk ==
    /\ run.pc = "save" /\ run.useDb
    /\ \E ok \in BOOLEAN :
         LET r == DbBulkInsert(table, ToRecords(run.dfNew), Source, FALSE)
         IN  IF ok /\ r.raised = "none"
             THEN /\ table' = r.table
                  /\ last' = Call("bulk_insert", ToRecords(run.dfNew), FALSE, 0, 0,
                                  r.res, 0, "none")
                  /\ run' = [run EXCEPT !.pc = "log"]
             ELSE /\ UNCHANGED <<table, last>>
                  /\ run' = [run EXCEPT !.pc = "errlog"]
    /\ UNCHANGED <<adapter, df, file, fileExists, cfg, two, net, runLog, backups>> /\ UNCHANGED keyVars

\* save_to_database, lines 407-413: log_update(status="success", ...).
DbSaveLog ==
    /\ run.pc = "log"
    /\ \E ok \in BOOLEAN :
         IF ok
         THEN /\ runLog' = Append(runLog, LogEntry("success", Len(run.dfNew),
                                                   last.res.inserted, last.res.updated))
              /\ run' = [run EXCEPT !.pc = "stats"]
         ELSE /\ UNCHANGED runLog
              /\ run' = [run EXCEPT !.pc = "errlog"]
    /\ UNCHANGED <<adapter, df, file, fileExists, table, last, cfg, two, net, backups>> /\ UNCHANGED keyVars

\* save_to_database, lines 415-425: get_statistics() and the end of the session.
DbSaveStats ==
    /\ run.pc = "stats"
    /\ \E ok \in BOOLEAN :
         IF ok THEN Finish("ok", "none") ELSE run' = [run EXCEPT !.pc = "errlog"]
    /\ UNCHANGED <<adapter, df, file, fileExists, table, last, cfg, two, net, runLog, backups>> /\ UNCHANGED keyVars

\* save_to_database, lines 426-440: the error is logged if that works, and raised.
DbSaveErrLog ==
    /\ run.pc = "errlog"
    /\ \E ok \in BOOLEAN :
         runLog' = IF ok THEN Append(runLog, LogEntry("error", Len(run.dfNew), 0, 0))
                   ELSE runLog
    /\ Finish("save_failed", "storage")
    /\ UNCHANGED <<adapter, df, file, fileExists, table, last, cfg, two, net, backups>> /\ UNCHANGED keyVars

\* save_to_csv, lines 445-461: CSVDataSource(CSV_PATH) loads the file, then
\* backup_file copies it if it exists (a failed copy is only a warning).
CsvSaveOpen ==
    /\ run.pc = "save" /\ ~run.useDb
    /\ df' = LoadCsv(file, fileExists)
    /\ \E ok \in BOOLEAN :
         backups' = IF fileExists /\ ok THEN backups \cup {file} ELSE backups
    /\ run' = [run EXCEPT !.pc = "bulk"]
    /\ UNCHANGED <<adapter, file, fileExists, table, last, cfg, two, net, runLog>> /\ UNCHANGED keyVars

\* save_to_csv, lines 462-477: bulk_insert and get_statistics; ok = FALSE: the
\* first write of the file fails (OSError in _save_csv).
CsvSaveBulk ==
    /\ run.pc = "bulk"
    /\ \E ok \in BOOLEAN :
         LET r == CsvBulkInsert(CsvState, ToRecords(run.dfNew), FALSE)
         IN  IF ok /\ r.raised = "none"
             THEN /\ df' = r.df /\ file' = r.file /\ fileExists' = r.exists
                  /\ last' = Call("bulk_insert", ToRecords(run.dfNew), FALSE, 0, 0,
                                  r.res, 0, "none")
                  /\ Finish("ok", "none")
             ELSE /\ UNCHANGED <<df, file, fileExists, last>>
                  /\ Finish("save_failed", "storage")
    /\ UNCHANGED <<adapter, table, cfg, two, net, runLog, backups>> /\ UNCHANGED keyVars

\* The records stored for the days 1..k by earlier runs.
PriorRecs(k) == [i \in 1..k |-> Rec(i, FALSE, OldQuote.open, OldQuote.close)]

\* A process starts: the settings are read; both stores hold what earlier runs
\* put there, the days 1..k; no update log is looked at.
InitRun ==
    /\ cfg \in [dbUrl : BOOLEAN, env : {"production", "development"}]
    /\ adapter = "csv"
    /\ df = <<>>
    /\ \E k \in 0..MaxPrior :
         LET c == CsvBulkInsert([df |-> <<>>, file |-> <<>>, exists |-> FALSE],
                                PriorRecs(k), FALSE)
         IN  /\ file = c.file /\ fileExists = c.exists
             /\ table = DbBulkInsert({}, PriorRecs(k), Source, FALSE).table
    /\ last = NoCall
    /\ run = NoRun /\ runLog = <<>> /\ backups = {} /\ two = NoTwo /\ net = NoFetch /\ KeysInit

NextRun ==
    \/ RunStart
    \/ FetchStep
    \/ ParseA
    \/ ParseB
    \/ DbSaveBulk
    \/ DbSaveLog
    \/ DbSaveStats
    \/ DbSaveErrLog
    \/ CsvSaveOpen
    \/ CsvSaveBulk

\* One pipeline run of one process, from its invocation to its report.
SpecRun == InitRun /\ [][NextRun]_vars

(* ------------------- normalization of arbitrary tables ----------------- *)
\* The rows a table may hold, in any order and with repeated days: the date and
\* the close each parse or do not.
RawRows == {RawRow(d, q) : d \in Days \cup {Null}, q \in {NewQuote, BadQuote}}

\* fetch_investing_cds has fetched a page whose table holds any rows in any order.
InitNorm ==
    /\ adapter = "csv"
    /\ df = <<>> /\ file = <<>> /\ fileExists = FALSE
    /\ table = {}
    /\ last = NoCall
    /\ cfg = [dbUrl |-> FALSE, env |-> "development"]
    /\ runLog = <<>> /\ backups = {} /\ two = NoTwo /\ net = NoFetch /\ KeysInit
    /\ \E sh \in {"generic", "nested"}, rows \in SeqsUpTo(RawRows, MaxTable) :
         run = [NoRun EXCEPT !.pc = "parseA", !.entry = "run_update", !.http = "ok",
                             !.page = [shape |-> sh, rows |-> rows]]

NextNorm ==
    \/ ParseA
    \/ ParseB

\* The extraction, with _normalize_investing_table, of every table of up to
\* MaxTable rows.
SpecNorm == InitNorm /\ [][NextNorm]_vars

(* ------------------------------- fetch_html ---------------------------- *)
\* urllib3's Retry: an attempt without a response, or with a status of the
\* forcelist, is retried while retries are left.
IsRetried(c) == c = ConnError \/ c \in StatusForcelist

\* session.get, line 106: one attempt of the adapter. A retried outcome consumes a
\* retry (after the backoff sleep) or, with none left, raises; any other response
\* is handed to fetch_html.
FetchAttempt ==
    /\ net.pc = "get"
    /\ \E c \in Responses :
         net' = [net EXCEPT
                   !.codes = Append(net.codes, c),
                   !.left = IF IsRetried(c) /\ net.left > 0 THEN net.left - 1 ELSE net.left,
                   !.pc = IF IsRetried(c)
                          THEN IF net.left > 0 THEN "get" ELSE "failed"
                          ELSE "status"]
    /\ UNCHANGED <<adapter, df, file, fileExists, table, last, cfg, run, runLog, backups, two>> /\ UNCHANGED keyVars

\* r.raise_for_status() and return r.text, lines 107-108.
FetchRaiseForStatus ==
    /\ net.pc = "status"
    /\ net' = [net EXCEPT !.pc = IF net.codes[Len(net.codes)] >= 400 THEN "failed" ELSE "ok"]
    /\ UNCHANGED <<adapter, df, file, fileExists, table, last, cfg, run, runLog, backups, two>> /\ UNCHANGED keyVars

NextFetch ==
    \/ FetchAttempt
    \/ FetchRaiseForStatus

\* One call of fetch_html, under every sequence of responses.
SpecFetch == Init /\ [][NextFetch]_vars

(* --------------------------- two concurrent runs ----------------------- *)
\* The records a run saves for the days D, all with the quote q: df_new is sorted
\* from the oldest day to the newest (_normalize_investing_table, line 213).
RECURSIVE AscBatch(_, _, _)
AscBatch(D, q, d) ==
    IF d = 0 THEN <<>>
    ELSE AscBatch(D, q, d - 1) \o
         (IF d \in D THEN <<Rec(d, FALSE, q.open, q.close)>> ELSE <<>>)

\* Run 1 fetched the old quotes, run 2 the new ones.
RunQuote(w) == IF w = 1 THEN OldQuote ELSE NewQuote

Batches(w) ==
    {AscBatch(D, RunQuote(w), MaxDate) :
        D \in {S \in SUBSET Dates : S # {} /\ Cardinality(S) <= MaxBatch}}

Other(w) == 3 - w

\* The rows run w's transaction sees and, at its commit, leaves: the committed
\* rows with its own uncommitted rows over them.
Overlay(t, pend) == {r \in t : \A q \in pend : q.date # r.date} \cup pend

BatchDates(w) == {two.p[w].batch[i].date : i \in DOMAIN two.p[w].batch}

\* save_to_csv of run w, line 445: CSVDataSource(CSV_PATH) loads the file.
TwoCsvLoad ==
    /\ adapter = "csv"
    /\ \E w \in Runs :
         /\ two.p[w].pc = "start"
         /\ two' = [two EXCEPT !.p[w].pc = "rows",
                               !.p[w].df = LoadCsv(file, fileExists),
                               !.p[w].early = (two.lastW = 0)]
    /\ UNCHANGED <<adapter, df, file, fileExists, table, last, cfg, net, run, runLog, backups>> /\ UNCHANGED keyVars

\* One round of the loop of bulk_insert in run w: upsert_record and its _save_csv.
TwoCsvRow ==
    /\ adapter = "csv"
    /\ \E w \in Runs :
         LET me == two.p[w]
             r == CsvBulkInsert([df |-> me.df, file |-> file, exists |-> fileExists],
                                <<me.batch[me.k]>>, FALSE)
         IN  /\ me.pc = "rows"
             /\ file' = r.file /\ fileExists' = r.exists
             /\ two' = [two EXCEPT
                          !.lastW = w,
                          !.p[w].df = r.df,
                          !.p[w].k = me.k + 1,
                          !.p[w].res = Counts(me.res.inserted + r.res.inserted,
                                              me.res.updated + r.res.updated,
                                              me.res.skipped + r.res.skipped),
                          !.p[w].pc = IF r.raised # "none" THEN "failed"
                                      ELSE IF me.k = Len(me.batch) THEN "done" ELSE "rows"]
    /\ UNCHANGED <<adapter, df, table, last, cfg, net, run, runLog, backups>> /\ UNCHANGED keyVars

\* One statement of the loop of bulk_insert in run w's transaction. It waits while
\* the other run holds an uncommitted row of the same date (the unique index).
TwoDbRow ==
    /\ adapter = "db"
    /\ \E w \in Runs :
         LET me == two.p[w]
             rec == me.batch[me.k]
             u == DbUpdateLoop([table |-> Overlay(table, me.pend), raised |-> "none",
                                res |-> me.res], <<rec>>, 1, Source)
             mine == {q.date : q \in me.pend} \cup {rec.date}
         IN  /\ me.pc \in {"start", "rows"}
             /\ \A q \in two.p[Other(w)].pend : q.date # rec.date
             /\ two' = [two EXCEPT
                          !.p[w].pend = {r \in u.table : r.date \in mine},
                          !.p[w].res = u.res,
                          !.p[w].k = me.k + 1,
                          !.p[w].early = IF me.pc = "start" THEN two.lastW = 0 ELSE me.early,
                          !.p[w].pc = IF u.raised # "none" THEN "failed"
                                      ELSE IF me.k = Len(me.batch) THEN "commit" ELSE "rows"]
    /\ UNCHANGED <<adapter, df, file, fileExists, table, last, cfg, net, run, runLog, backups>> /\ UNCHANGED keyVars

\* bulk_insert of run w, line 198: session.commit().
TwoDbCommit ==
    /\ adapter = "db"
    /\ \E w \in Runs :
         /\ two.p[w].pc = "commit"
         /\ table' = Overlay(table, two.p[w].pend)
         /\ two' = [two EXCEPT !.lastW = w, !.p[w].pend = {}, !.p[w].pc = "done"]
    /\ UNCHANGED <<adapter, df, file, fileExists, last, cfg, net, run, runLog, backups>> /\ UNCHANGED keyVars

\* Two runs are about to save what they fetched into one store, which holds what
\* earlier runs put there.
InitTwo ==
    /\ adapter \in {"csv", "db"}
    /\ df = <<>>
    /\ \E k \in 0..MaxPrior :
         LET c == CsvBulkInsert([df |-> <<>>, file |-> <<>>, exists |-> FALSE],
                                PriorRecs(k), FALSE)
         IN  /\ file = c.file /\ fileExists = c.exists
             /\ table = DbBulkInsert({}, PriorRecs(k), Source, FALSE).table
    /\ last = NoCall
    /\ cfg = [dbUrl |-> FALSE, env |-> "development"]
    /\ run = NoRun /\ runLog = <<>> /\ backups = {} /\ net = NoFetch /\ KeysInit
    /\ \E b1 \in Batches(1), b2 \in Batches(2) :
         two = [NoTwo EXCEPT !.p[1].batch = b1, !.p[2].batch = b2,
                             !.pre = [df |-> <<>>, file |-> file, exists |-> fileExists,
                                      table |-> table]]

NextTwo ==
    \/ TwoCsvLoad
    \/ TwoCsvRow
    \/ TwoDbRow
    \/ TwoDbCommit

\* Two runs save concurrently; a step is a file write or a statement.
SpecTwo == InitTwo /\ [][NextTwo]_vars

(* ------------------------- claims about the pipeline ------------------- *)
\* The fetched table is the three-row scenario: row i has a date and a close that
\* does not parse, row j has the date of a stored Observation and another close,
\* row k has a date that is not stored.
Scenario(i, j, k) ==
    LET rows == run.page.rows
    IN  /\ Len(rows) = 3 /\ {i, j, k} = 1..3
        /\ rows[i].date # Null /\ rows[i].close = Null
        /\ rows[j].date # Null /\ rows[j].close # Null
        /\ Persisted(run.pre, rows[j].date) # {}
        /\ \A o \in Persisted(run.pre, rows[j].date) : o.close # rows[j].close
        /\ rows[k].date # Null /\ rows[k].close # Null
        /\ Persisted(run.pre, rows[k].date) = {}

\* The store after the scenario: row j's values replace the stored ones, row k is
\* stored, and nothing is stored for row i.
ScenarioStored(i, j, k) ==
    LET rows == run.page.rows
    IN  /\ Persisted(PreState, rows[j].date) = {Fields(ToRecords(rows)[j])}
        /\ Persisted(PreState, rows[k].date) = {Fields(ToRecords(rows)[k])}
        /\ Persisted(PreState, rows[i].date) = Persisted(run.pre, rows[i].date)

\* C6: a run that fetches three rows (one with an unparseable close, one with a
\* stored date and a changed close, one with a new date) and saves them returns
\* {inserted: 1, updated: 1, skipped: 0}; afterwards the store holds the second
\* row's values and the third row, and nothing derived from the first.
C6_EndToEnd ==
    \A i, j, k \in 1..3 :
        (run.pc = "done" /\ run.failed = "none" /\ Scenario(i, j, k)) =>
            /\ last.res = Counts(1, 1, 0)
            /\ ScenarioStored(i, j, k)

\* C6 in CSV mode, and the store's contents in both modes.
C6_EndToEndCsv ==
    \A i, j, k \in 1..3 :
        (run.pc = "done" /\ run.failed = "none" /\ Scenario(i, j, k)) =>
            /\ ~run.useDb => last.res = Counts(1, 1, 0)
            /\ ScenarioStored(i, j, k)

\* C7: every run that has ended, whatever its storage mode and outcome, has written
\* exactly one RunLog entry.
C7_ExactlyOneRunLog == run.pc = "done" => Len(runLog) = 1

\* C8: when the fetch (an error response or a failed request) or the extraction of
\* a run fails, the persisted Observations, the store file and the rows of
\* cds_records, are what they were before the run.
C8_NoWriteOnFetchFailure ==
    (run.http = "error" \/ run.failed \in {"fetch", "extract"}) =>
        /\ file = run.pre.file
        /\ fileExists = run.pre.exists
        /\ table = run.pre.table

\* C8 witness: a run over a store that holds Observations has ended with a failed fetch.
C8_Witness ==
    /\ run.pc = "done" /\ run.failed = "fetch"
    /\ run.pre.table # {} /\ run.pre.exists

\* C9: a run whose fetch or extraction failed is reported as failed by its entry
\* point: run_update returns False, the cron trigger answers with an error.
C9_FailureReported ==
    (run.pc = "done" /\ run.failed \in {"fetch", "extract"}) =>
        run.outcome \in {"False", "http500"}

\* C10: the generic strategy is attempted exactly once, before the positional one;
\* the positional strategy is attempted at most once, and exactly when the generic
\* one returned no table or an empty one; when both fail the run ends with an
\* extraction error.
C10_StrategyOrder ==
    LET aNothing == \/ run.resA.kind = "none"
                    \/ run.resA.kind = "df" /\ run.resA.rows = <<>>
        bNothing == \/ run.resB.kind = "none"
                    \/ run.resB.kind = "df" /\ run.resB.rows = <<>>
        fetched == /\ run.pc \notin {"idle", "fetch", "parseA"}
                   /\ run.failed \notin {"fetch", "config"}
    IN  /\ run.triedA <= 1 /\ run.triedB <= 1
        /\ fetched => run.triedA = 1
        /\ run.triedB = 1 => (run.triedA = 1 /\ aNothing)
        /\ (run.triedA = 1 /\ aNothing /\ run.pc # "parseB") => run.triedB = 1
        /\ (run.triedB = 1 /\ bNothing) => (run.pc = "done" /\ run.failed = "extract")
        /\ run.resA.kind = "raise" => (run.pc = "done" /\ run.failed = "extract")

\* C10 witness: both strategies were attempted, once each, and the run has ended
\* with an extraction error.
C10_Witness ==
    /\ run.pc = "done" /\ run.failed = "extract"
    /\ run.triedA = 1 /\ run.triedB = 1

\* The run has fetched a page with a table in which every row lacks a parseable
\* date or a parseable close.
NoValidRow ==
    /\ run.http = "ok" /\ run.pc \notin {"idle", "fetch"}
    /\ run.page.shape \in {"generic", "nested"}
    /\ \A i \in DOMAIN run.page.rows :
         run.page.rows[i].date = Null \/ run.page.rows[i].close = Null

\* C11: when no valid row remains after normalization the run ends like an
\* extraction failure: it fails with the extraction error, bulk_insert is never
\* called and the store is unchanged.
C11_NoValidRows ==
    NoValidRow =>
        /\ run.pc \in {"parseA", "parseB", "done"}
        /\ run.pc = "done" => run.failed = "extract"
        /\ last = NoCall
        /\ file = run.pre.file /\ fileExists = run.pre.exists /\ table = run.pre.table

\* C11 witness: a run over a stored Observation fetched a table with rows, none of
\* them valid, and has ended.
C11_Witness ==
    /\ NoValidRow /\ run.pc = "done"
    /\ run.page.rows # <<>> /\ run.page.shape = "generic"
    /\ \E i \in DOMAIN run.page.rows :
         run.page.rows[i].date # Null /\ run.page.rows[i].close = Null
    /\ run.pre.table # {}

\* C12: after any sequence of upsert_record and bulk_insert calls, on either
\* adapter, every persisted Observation has a close that is not null.
C12_CloseNeverNull ==
    /\ \A i \in DOMAIN file : file[i].close # Null
    /\ \A r \in table : r.close # Null

\* C12 for the relational adapter alone.
C12_CloseNeverNullDb == \A r \in table : r.close # Null

\* C13: in a file-based run that found the store file, the file is overwritten
\* only while a backup copy with the file's content from before the run exists.
C13_BackupBeforeOverwrite ==
    (run.pc # "idle" /\ ~run.useDb /\ run.pre.exists /\ file # run.pre.file) =>
        run.pre.file \in backups

\* C14: when bulk_insert of the file-based adapter fails at a row of its batch, the
\* store file holds what it held before the batch began.
C14_FileUntouchedOnFailure ==
    (adapter = "csv" /\ last.op = "bulk_insert" /\ last.raised # "none") =>
        /\ file = last.pre.file
        /\ fileExists = last.pre.exists

\* The first row of the batch that the relational store rejects (close is null).
FailedAt(batch) == Min({i \in DOMAIN batch : batch[i].close = Null})

\* C15: when bulk_insert of the relational adapter, in update mode, fails at the
\* k-th row of its batch, the upserts of the rows 1..k-1 remain persisted.
C15_PartialProgress ==
    (adapter = "db" /\ last.op = "bulk_insert" /\ ~last.skip /\ last.raised # "none") =>
        \A i \in 1..(FailedAt(last.batch) - 1) :
            (\A j \in (i + 1)..(FailedAt(last.batch) - 1) :
                 last.batch[j].date # last.batch[i].date) =>
                Obs(PreState, last.batch[i].date) = {Fields(last.batch[i])}

\* C15 as the code has it: the statements of a batch run in one transaction that is
\* committed after the last row, so a bulk_insert that fails at any row leaves
\* cds_records as it was before the batch; no row of the batch is persisted.
C15_AllOrNothing ==
    (adapter = "db" /\ last.op = "bulk_insert" /\ last.raised # "none") =>
        table = last.pre.table

\* C15 witness: an update-mode batch failed at its second or a later row, and its
\* first row's date was not stored before.
C15_Witness ==
    /\ adapter = "db" /\ last.op = "bulk_insert" /\ ~last.skip /\ last.raised # "none"
    /\ FailedAt(last.batch) > 1
    /\ DbGetByDate(last.pre.table, last.batch[1].date) = {}

\* Both runs have finished, and each had loaded the file before any write.
Overlapped ==
    /\ \A w \in Runs : two.p[w].pc = "done" /\ two.p[w].early

\* C16: the file-based store loses updates of overlapping runs: when two runs have
\* each loaded the file before any write, whatever one run wrote for a date that
\* the run writing last does not write itself is gone from the file, which holds
\* for that date what it held before both runs.
C16_LostUpdate ==
    (adapter = "csv" /\ Overlapped) =>
        \A w \in Runs :
            two.lastW = Other(w) =>
                \A d \in BatchDates(w) \ BatchDates(Other(w)) :
                    Persisted(PreState, d) = Persisted(two.pre, d)

\* C16 witness: two overlapping runs have finished, one of them reported a date as
\* inserted, and the file has no Observation of that date.
C16_Witness ==
    /\ adapter = "csv" /\ Overlapped
    /\ \E w \in Runs :
         /\ two.lastW = Other(w)
         /\ two.p[w].res.inserted > 0
         /\ \E d \in BatchDates(w) :
              /\ Persisted(two.pre, d) = {}
              /\ Persisted(PreState, d) = {}

\* The rows that the runs, and the runs before them, sent to the store.
Incoming ==
    {DbRow(rec, Source) :
        rec \in Range(two.p[1].batch) \cup Range(two.p[2].batch)
                \cup Range(PriorRecs(MaxPrior))}

\* C17: under every interleaving of two concurrent relational runs cds_records
\* never holds two rows of one date, and every stored row is, in all its fields,
\* one incoming row.
C17_NoRowCorruption ==
    adapter = "db" =>
        /\ \A r1, r2 \in table : r1.date = r2.date => r1 = r2
        /\ table \subseteq Incoming

\* C17 witness: two runs whose transactions overlapped have both committed a row
\* of one date, and the table holds for that date the row of the run that
\* committed last.
C17_Witness ==
    /\ adapter = "db" /\ Overlapped
    /\ \E d \in BatchDates(1) \cap BatchDates(2) :
         \E r \in table : r.date = d /\ r.close = RunQuote(two.lastW).close

\* C18: run_update with force mode "csv" uses the file-based store; with "db" and a
\* connection string the relational store; with "db" and no connection string it
\* fails before it fetches anything; with no force mode it uses the relational
\* store exactly when a connection string is configured and the environment is
\* "production". The store that is not used is not touched.
C18_StorageSelection ==
    LET toDb == \/ run.force = "db"
                \/ run.force = "none" /\ cfg.dbUrl /\ cfg.env = "production"
    IN  (run.entry = "run_update" /\ run.pc # "idle") =>
            IF run.force = "db" /\ ~cfg.dbUrl
            THEN /\ run.pc = "done" /\ run.outcome = "False"
                 /\ run.http = "none" /\ run.triedA = 0
                 /\ file = run.pre.file /\ table = run.pre.table /\ runLog = <<>>
            ELSE /\ run.useDb = toDb
                 /\ toDb => (file = run.pre.file /\ df = <<>> /\ backups = {})
                 /\ ~toDb => (table = run.pre.table /\ runLog = <<>>)
                 /\ (run.pc = "done" /\ run.failed = "none" /\ toDb) => Len(runLog) = 1
                 /\ (run.pc = "done" /\ run.failed = "none" /\ ~toDb) => fileExists

\* C18 witness: run_update without a force mode, in production with a connection
\* string, has saved rows into cds_records.
C18_Witness ==
    /\ run.entry = "run_update" /\ run.force = "none"
    /\ cfg.dbUrl /\ cfg.env = "production"
    /\ run.pc = "done" /\ run.failed = "none"
    /\ table # run.pre.table

\* C19: fetch_html makes at most REQUEST_RETRIES + 1 attempts; an attempt that meets
\* 429, a 5xx status or a connection error is retried until the retries are used
\* up, and only then the fetch fails; a first response with a 4xx status other
\* than 429 fails the fetch after that one attempt.
C19_BoundedRetries ==
    LET n == Len(net.codes)
        Transient(c) == c = 429 \/ c \in 500..599 \/ c = ConnError
    IN  /\ n <= RequestRetries + 1
        /\ (net.pc = "failed" /\ Transient(net.codes[n])) => n = RequestRetries + 1
        /\ (net.pc \in {"ok", "failed"} /\ net.codes[1] \in (400..499) \ {429}) =>
               (net.pc = "failed" /\ n = 1)

\* C19 without "any 5xx": what holds for the statuses of the forcelist.
C19_BoundedRetriesForcelist ==
    LET n == Len(net.codes)
    IN  /\ n <= RequestRetries + 1
        /\ (net.pc = "failed" /\ IsRetried(net.codes[n])) => n = RequestRetries + 1
        /\ (net.pc \in {"ok", "failed"} /\ net.codes[1] \in (400..499) \ {429}) =>
               (net.pc = "failed" /\ n = 1)

\* The frame is in non-decreasing date order and every row of it has a date.
SortedWithDates(rows) ==
    /\ \A i \in DOMAIN rows : rows[i].date # Null
    /\ \A i, j \in DOMAIN rows : i < j => rows[i].date <= rows[j].date

\* C20: for every table, the output of normalization, whichever strategy produced
\* it, is sorted in ascending date order and holds no row whose date did not parse.
C20_NormalizeSorted ==
    /\ run.resA.kind = "df" => SortedWithDates(run.resA.rows)
    /\ run.resB.kind = "df" => SortedWithDates(run.resB.rows)
    /\ SortedWithDates(run.dfNew)

\* C20 witness: a table with a row without a date and two dated rows, the later day
\* first, has been normalized to two rows.
C20_Witness ==
    /\ run.resA.kind = "df" /\ Len(run.resA.rows) = 2
    /\ Len(run.page.rows) = 3
    /\ \E i, j, k \in 1..3 :
         /\ run.page.rows[i].date = Null
         /\ j < k
         /\ run.page.rows[j].date # Null /\ run.page.rows[k].date # Null
         /\ run.page.rows[j].date > run.page.rows[k].date

\* get_latest(n) of the adapter under test, and the Observations it reads from.
GetLatest(n) ==
    IF adapter = "csv" THEN [i \in DOMAIN CsvGetLatest(df, n) |-> Fields(CsvGetLatest(df, n)[i])]
    ELSE [i \in DOMAIN DbGetLatest(table, n) |-> Fields(DbGetLatest(table, n)[i])]

Stored ==
    IF adapter = "csv" THEN {Fields(df[i]) : i \in DOMAIN df} ELSE {Fields(r) : r \in table}

Total == IF adapter = "csv" THEN Len(df) ELSE Cardinality(table)

\* C21: in every reachable store state get_latest(n) returns min(n, total)
\* Observations, in strictly descending date order, and no stored Observation
\* outside the result has a date greater than one inside.
C21_GetLatest ==
    \A n \in 1..MaxRows :
        LET res == GetLatest(n)
        IN  /\ Len(res) = IF n < Total THEN n ELSE Total
            /\ \A i, j \in DOMAIN res : i < j => res[i].date > res[j].date
            /\ \A i \in DOMAIN res : res[i] \in Stored
            /\ \A o \in Stored \ Range(res) : \A i \in DOMAIN res : o.date < res[i].date

\* The dates of the persisted Observations: of the file's rows, or of the table's.
PersistedDates(st) ==
    IF adapter = "csv" THEN {st.file[i].date : i \in DOMAIN st.file}
    ELSE {r.date : r \in st.table}

\* The dates of the rows of a batch.
BatchDatesOf(batch) == {batch[i].date : i \in DOMAIN batch}

OptionalFields == {"open", "high", "low", "change_pct"}

\* A call in update mode: upsert_record, or bulk_insert without skip_existing.
ReturnedUpdate == Returned("upsert_record") \/ (Returned("bulk_insert") /\ ~last.skip)

\* C26: in update mode a null optional field of the incoming row for a stored date
\* replaces the stored value: afterwards the Observation of that date, persisted
\* and returned by get_by_date, has null in that field.
C26_NullOverwrites ==
    ReturnedUpdate =>
        \A i \in DOMAIN last.batch : \A f \in OptionalFields :
            (/\ last.batch[i].date \in StoreDates(last.pre)
             /\ LastOfDate(last.batch, i)
             /\ last.batch[i][f] = Null) =>
                /\ Obs(PreState, last.batch[i].date) # {}
                /\ \A o \in Obs(PreState, last.batch[i].date)
                           \cup Persisted(PreState, last.batch[i].date) : o[f] = Null

\* C26 witness: the stored Observation had an open value and the incoming row for
\* its date had none.
C26_Witness ==
    /\ ReturnedUpdate
    /\ \E i \in DOMAIN last.batch :
         /\ LastOfDate(last.batch, i)
         /\ last.batch[i].open = Null
         /\ \E o \in Obs(last.pre, last.batch[i].date) : o.open # Null
         /\ \A o \in Obs(PreState, last.batch[i].date) : o.open = Null

\* C27: last write wins inside a batch: after bulk_insert in update mode the
\* Observation of a date that several rows of the batch carry, persisted and
\* returned by get_by_date, is the last of those rows in batch order.
C27_LastWriteWins ==
    (Returned("bulk_insert") /\ ~last.skip) =>
        \A i \in DOMAIN last.batch :
            (/\ LastOfDate(last.batch, i)
             /\ \E j \in 1..(i - 1) : last.batch[j].date = last.batch[i].date) =>
                /\ Persisted(PreState, last.batch[i].date) = {Fields(last.batch[i])}
                /\ Obs(PreState, last.batch[i].date) = {Fields(last.batch[i])}

\* C27 witness: the batch carried two different rows for one date.
C27_Witness ==
    /\ Returned("bulk_insert") /\ ~last.skip
    /\ \E i, j \in DOMAIN last.batch :
         /\ j < i
         /\ last.batch[j].date = last.batch[i].date
         /\ Fields(last.batch[j]) # Fields(last.batch[i])
         /\ LastOfDate(last.batch, i)

\* The records a CSVDataSource newly constructed on the path returns.
Reloaded == LET d == LoadCsv(file, fileExists) IN [i \in DOMAIN d |-> Fields(d[i])]

\* The records of the in-memory dataset.
InMemory == [i \in DOMAIN df |-> Fields(df[i])]

\* C28: when a mutating CSVDataSource operation has returned, a store newly
\* constructed on the same path returns the records of the in-memory dataset; after
\* delete_by_date_range(lo, hi) it holds no Observation with lo <= date <= hi.
C28_FileIsDataset ==
    (/\ adapter = "csv"
     /\ Returned("upsert_record") \/ Returned("bulk_insert")
            \/ Returned("delete_by_date_range")) =>
        /\ Reloaded = InMemory
        /\ Returned("delete_by_date_range") =>
               \A i \in DOMAIN Reloaded : Reloaded[i].date < last.lo \/ Reloaded[i].date > last.hi

\* C29: upsert_record treats a date given as a string like the calendar date: after
\* any sequence of upserts the key of every row of the dataset is a calendar date,
\* no date has two rows, and the upsert returned the Observation that get_by_date
\* finds for its date.
C29_StringDates ==
    adapter = "csv" =>
        /\ \A i \in DOMAIN df : ~df[i].dstr
        /\ \A i, j \in DOMAIN df : df[i].date = df[j].date => i = j
        /\ (last.op = "upsert_record" /\ last.batch[1].dstr) =>
               /\ last.raised = "none"
               /\ Obs(PreState, last.batch[1].date) = {Fields(last.batch[1])}

\* C23: once revoke_key(id) has returned True the key is never active again, and a
\* validate_key call that starts afterwards with that key returns None and leaves
\* table api_keys, request_count and last_used_at included, as it was.
C23_RevokedStaysRevoked ==
    /\ \A r \in apiKeys : r.id \in akLog.revoked => ~r.is_active
    /\ (akLog.last.op = "validate_key" /\ akLog.last.revoked) =>
           /\ akLog.last.res = "None"
           /\ apiKeys = akLog.last.pre

\* C23 witness: a key that had been used was revoked, and validate_key was called
\* with it afterwards.
C23_Witness ==
    /\ akLog.last.op = "validate_key" /\ akLog.last.revoked
    /\ \E r \in apiKeys :
         /\ r.key_hash = hash_key(akLog.last.key)
         /\ r.id \in akLog.revoked
         /\ r.request_count > 0

\* C24: with one call at a time, a successful validate_key adds exactly 1 to the
\* request_count of its key and changes no other counter, a failed one changes no
\* counter, and the request_count of a key is the number of its successful
\* validations.
C24_CountsValidations ==
    /\ (akLog.last.op = "validate_key" /\ akLog.last.res = "record") =>
           /\ GetById(apiKeys, akLog.last.id) # {}
           /\ \A r \in apiKeys : \A q \in akLog.last.pre :
                  q.id = r.id =>
                      r.request_count =
                          q.request_count + (IF r.id = akLog.last.id THEN 1 ELSE 0)
    /\ (akLog.last.op = "validate_key" /\ akLog.last.res = "None") =>
           apiKeys = akLog.last.pre
    /\ Sequential => \A r \in apiKeys : r.request_count = akLog.ok[r.id]

\* C24 witness: the second successful validation of a key has returned.
C24_Witness ==
    /\ akLog.last.op = "validate_key" /\ akLog.last.res = "record"
    /\ \E r \in apiKeys : r.id = akLog.last.id /\ r.request_count = 2

\* C30: with validate_key calls running concurrently in sessions of their own, once
\* all of them have committed the request_count of a key is the number of its
\* successful validations.
C30_NoLostIncrement ==
    (\A s \in Sessions : sess[s].pc = "idle") =>
        \A r \in apiKeys : akLog.ok[r.id] = r.request_count

====
